---- MODULE Spec2Model ----
(***************************************************************************)
(* The job lifecycle and storage-tier orchestration of the GAS annotation  *)
(* service: the annotator (Completion Worker), archive.py (Archival        *)
(* Worker), restore.py (Retrieval Worker) and thaw.py (Thaw Worker), which *)
(* share the DynamoDB table, the S3 results bucket, the Glacier vault and  *)
(* four SQS queues.  Every call a worker makes to a store is one step, so  *)
(* that every interleaving of the workers and every crash point between    *)
(* two calls is a behaviour of the model.                                   *)
(***************************************************************************)
EXTENDS Integers, FiniteSets, TLC

\* ------------------------------------------------------------------ bounds
Jobs == {"j1", "j2"}
Users == {"u1", "u2"}
\* The jobs that are submitted in the behaviours of Spec.
Submitted == {"j1"}
\* Archive ids the vault can hand out; retrieval job ids Glacier can hand out.
MaxArchives == 2
MaxRetrievals == 2
\* The clock stops the model when it would pass MaxTime.
MaxTime == 10
\* The calls that fail and the processes that crash in one behaviour.
MaxFaults == 1

ArchiveIds == 1..MaxArchives
RetrievalIds == 1..MaxRetrievals
\* The completion notifications of one job that can be queued together: the
\* compute step runs once, and once more after each fault.
Copies == 1..(MaxFaults + 1)

\* --------------------------------------------------------------- constants
\* time.sleep(5) of archive.py; the 300 seconds of views.py.
SleepSeconds == 5
GracePeriod == 300
\* An attribute that the item does not carry.
NoRef == 0
NoTime == -1

VARIABLES
    table,      \* DynamoDB annotations table: job_id -> item
    s3results,  \* S3 results bucket: job's result key -> bytes
    vault,      \* Glacier vault: archive id -> archive
    gjobs,      \* Glacier retrieval jobs: job id -> job
    now,        \* the clock, in seconds
    profile,    \* accounts database: user -> role
    requestQ,   \* SQS job request queue (annotator)
    resultsQ,   \* SQS job results queue (archive.py)
    restoreQ,   \* SQS restore queue (restore.py)
    thawQ,      \* SQS thaw queue (thaw.py)
    ann,        \* annotator.py: position and locals
    arch,       \* archive.py: position and locals
    arch2,      \* a second instance of archive.py: position and locals
    rest,       \* restore.py: position and locals
    thaw,       \* thaw.py: position and locals
    page,       \* views.py: what annotation_details rendered last
    annFirst,   \* history: the job_status with which process_annotation
                \* returned True for the job's message for the first time
    faults      \* the failed calls and process crashes so far

vars == <<table, s3results, vault, gjobs, now, profile, requestQ, resultsQ,
          restoreQ, thawQ, ann, arch, arch2, rest, thaw, page, annFirst,
          faults>>

stores == <<table, s3results, vault, gjobs>>
queues == <<requestQ, resultsQ, restoreQ, thawQ>>

\* ------------------------------------------------------------------- items
NoItem ==
    [present |-> FALSE, user_id |-> "none", user_role |-> "none",
     job_status |-> "none", s3_key_result_file |-> FALSE,
     complete_time |-> NoTime, results_file_archive_id |-> NoRef,
     glacier_restore_job_id |-> NoRef]

NewItem(u, role) ==
    [present |-> TRUE, user_id |-> u, user_role |-> role,
     job_status |-> "PENDING", s3_key_result_file |-> FALSE,
     complete_time |-> NoTime, results_file_archive_id |-> NoRef,
     glacier_restore_job_id |-> NoRef]

\* table.update_item(Key, 'SET f = v'): creates the item when there is none.
SetAttr(t, j, f, v) == [t EXCEPT ![j] = [@ EXCEPT !.present = TRUE, ![f] = v]]

NoObject == "none"
NoArchive == [state |-> "unused", content |-> NoObject]
\* fetched: glacier.get_job_output has returned the output of the job.
NoGJob == [state |-> "unused", archive |-> NoRef, fetched |-> FALSE]

\* The messages a queue can hold: an SNS envelope around a payload.
\*   kind "ok": the envelope has 'Message' and the payload its fields;
\*   kind "noMessage": the envelope has no 'Message';
\*   kind "noField": the payload lacks the field the worker reads;
\*   kind "default": the payload is {'default': '{"user_id": ...}'}.
JobMsg(j) == [kind |-> "ok", id |-> j]
UserMsg(u) == [kind |-> "ok", id |-> u]
ThawMsg(r) == [kind |-> "ok", id |-> r]
\* Each publish to the results topic is a message of its own in the queue.
ResultMsg(j, n) == [kind |-> "ok", id |-> j, n |-> n]

Idle == [pc |-> "idle"]

\* No job details page has been rendered.
NoPage == [job |-> "none", result_file_url |-> FALSE, free_access_expired |-> FALSE]

\* A call of a worker to a store or a queue succeeds (ok) or fails.
Outcome(ok) ==
    /\ ok \/ faults < MaxFaults
    /\ faults' = IF ok THEN faults ELSE faults + 1

\* Nothing has been submitted and the workers wait for messages.
Start ==
    /\ table = [j \in Jobs |-> NoItem]
    /\ s3results = [j \in Jobs |-> NoObject]
    /\ vault = [a \in ArchiveIds |-> NoArchive]
    /\ gjobs = [r \in RetrievalIds |-> NoGJob]
    /\ now = 0
    /\ profile = [u \in Users |-> IF u = "u1" THEN "free_user" ELSE "premium_user"]
    /\ requestQ = {}
    /\ resultsQ = {}
    /\ restoreQ = {}
    /\ thawQ = {}
    /\ ann = Idle
    /\ arch = Idle
    /\ arch2 = Idle
    /\ page = NoPage
    /\ rest = Idle
    /\ thaw = Idle
    /\ annFirst = [j \in Jobs |-> "none"]

Init == Start /\ faults = 0

\* ---------------------------------------------------------------- views.py
\* create_annotation_job_request: put the item, publish the job request.
Submit(j, u) ==
    /\ ~table[j].present
    /\ table' = [table EXCEPT ![j] = NewItem(u, profile[u])]
    /\ requestQ' = requestQ \cup {JobMsg(j)}
    /\ UNCHANGED faults
    /\ UNCHANGED <<s3results, vault, gjobs, now, profile, resultsQ, restoreQ,
                   thawQ, ann, arch, rest, thaw, annFirst, arch2, page>>

\* ------------------------------------------------------------ annotator.py
\* The uncaught exception of a worker ends its process.
Terminated == [pc |-> "terminated"]

\* main: receive one message; an envelope without 'Message' is only logged
\* (ret "noMessage": process_annotation is not called);
\* process_annotation reads job_id and s3_key_input_file (KeyError: False)
\* and downloads the input file (ok: the download succeeds; else False).
AnnReceive(m, ok) ==
    /\ ann.pc = "idle"
    /\ m \in requestQ
    /\ Outcome(ok)
    /\ ok \/ m.kind = "ok"
    /\ ann' = IF m.kind = "noMessage"
              THEN [pc |-> "returned", msg |-> m, ret |-> "noMessage"]
              ELSE IF m.kind = "noField" \/ ~ok
                   THEN [pc |-> "returned", msg |-> m, ret |-> "error"]
                   ELSE [pc |-> "setRunning", msg |-> m, ret |-> "none"]
    /\ UNCHANGED <<stores, now, profile, queues, arch, rest, thaw, annFirst, arch2,
            page>>

\* update_job_status(job_id, status): SET job_status = :s, whatever it was.
update_job_status(t, j, status) == SetAttr(t, j, "job_status", status)

AnnSetRunning(ok) ==
    /\ ann.pc = "setRunning"
    /\ Outcome(ok)
    /\ IF ok
       THEN /\ table' = update_job_status(table, ann.msg.id, "RUNNING")
            /\ ann' = [ann EXCEPT !.pc = "compute"]
       ELSE /\ ann' = [ann EXCEPT !.pc = "returned", !.ret = "error"]
            /\ UNCHANGED table
    /\ UNCHANGED <<s3results, vault, gjobs, now, profile, queues, arch, rest,
                   thaw, annFirst, arch2, page>>

\* A compute step that leaves complete_time out of the item.
RunSucceededNoTime(t, j, time) ==
    [t EXCEPT ![j] = [@ EXCEPT !.present = TRUE, !.s3_key_result_file = TRUE]]

\* The compute step (anntools/run.py, run as a subprocess).  On return code 0
\* the result object is in the results bucket, the item carries the result
\* key and complete_time, and the completion notification is published.
RunSucceeded(t, j, time) ==
    [t EXCEPT ![j] = [@ EXCEPT !.present = TRUE, !.s3_key_result_file = TRUE,
                               !.complete_time = time]]

\* The result object the compute step puts under the job's result key.
RunResult(j) == j

\* The queue after the compute step published the completion notification.
RunPublish(q, j) ==
    q \cup {ResultMsg(j, CHOOSE n \in Copies :
                            /\ ResultMsg(j, n) \notin q
                            /\ \A k \in Copies : ResultMsg(j, k) \notin q => n <= k)}

\* process.returncode == 0: COMPLETED is written; otherwise False is returned
\* and the status is left as it is.
AnnCompute(rc0) ==
    /\ ann.pc = "compute"
    /\ IF rc0
       THEN /\ \E n \in Copies : ResultMsg(ann.msg.id, n) \notin resultsQ
            /\ table' = RunSucceeded(table, ann.msg.id, now)
            /\ s3results' = [s3results EXCEPT ![ann.msg.id] = RunResult(ann.msg.id)]
            /\ resultsQ' = RunPublish(resultsQ, ann.msg.id)
            /\ ann' = [ann EXCEPT !.pc = "setCompleted"]
       ELSE /\ ann' = [ann EXCEPT !.pc = "returned", !.ret = "failed"]
            /\ UNCHANGED <<table, s3results, resultsQ>>
    /\ UNCHANGED faults
    /\ UNCHANGED <<vault, gjobs, now, profile, requestQ, restoreQ, thawQ,
                   arch, rest, thaw, annFirst, arch2, page>>

AnnSetCompleted(ok) ==
    /\ ann.pc = "setCompleted"
    /\ Outcome(ok)
    /\ IF ok
       THEN /\ table' = update_job_status(table, ann.msg.id, "COMPLETED")
            /\ ann' = [ann EXCEPT !.pc = "returned", !.ret = "ok"]
            /\ annFirst' = IF annFirst[ann.msg.id] = "none"
                           THEN [annFirst EXCEPT ![ann.msg.id] =
                                    table'[ann.msg.id].job_status]
                           ELSE annFirst
       ELSE /\ ann' = [ann EXCEPT !.pc = "returned", !.ret = "error"]
            /\ UNCHANGED <<table, annFirst>>
    /\ UNCHANGED <<s3results, vault, gjobs, now, profile, queues, arch, rest,
                   thaw, arch2, page>>

\* A main that deletes the message whatever process_annotation returned.
AnnDeletesAlways(ret) == TRUE

\* main: the message is deleted when process_annotation returned True.
AnnDeletes(ret) == ret = "ok"

AnnReturn(ok) ==
    /\ ann.pc = "returned"
    /\ Outcome(ok \/ ~AnnDeletes(ann.ret))
    /\ ok \/ AnnDeletes(ann.ret)
    /\ IF AnnDeletes(ann.ret)
       THEN IF ok THEN /\ requestQ' = requestQ \ {ann.msg}
                       /\ ann' = Idle
                  ELSE /\ ann' = Terminated
                       /\ UNCHANGED requestQ
       ELSE /\ ann' = Idle
            /\ UNCHANGED requestQ
    /\ UNCHANGED <<stores, now, profile, resultsQ, restoreQ, thawQ, arch,
                   rest, thaw, annFirst, arch2, page>>

\* The process is killed and started again: the message it held stays queued.
AnnCrash ==
    /\ ann.pc \notin {"idle", "terminated"}
    /\ ann' = Idle
    /\ Outcome(FALSE)
    /\ UNCHANGED <<stores, now, profile, queues, arch, rest, thaw, annFirst, arch2,
            page>>

Annotator ==
    \/ \E m \in requestQ, ok \in BOOLEAN : AnnReceive(m, ok)
    \/ \E ok \in BOOLEAN : AnnSetRunning(ok)
    \/ \E rc0 \in BOOLEAN : AnnCompute(rc0)
    \/ \E ok \in BOOLEAN : AnnSetCompleted(ok)
    \/ \E ok \in BOOLEAN : AnnReturn(ok)
    \/ AnnCrash

\* -------------------------------------------------------------- archive.py
\* A test of the role that lets every user's job through to archive_file.
IsFreeUserAnyRole(role) == TRUE

\* poll_sqs: item['user_role'] == 'free_user'
IsFreeUser(role) == role = "free_user"

\* poll_sqs: an envelope without 'Message', or a payload without job_id, is
\* skipped with continue; when table.get_item finds no item nothing more is
\* done with the message; a free user's job is archived after the sleep, any
\* other user's message is deleted at once.
ArchReceive(m, ok) ==
    /\ arch.pc = "idle"
    /\ m \in resultsQ
    /\ Outcome(ok)
    /\ ok \/ m.kind = "ok"
    /\ arch' = IF m.kind # "ok" THEN [pc |-> "skip", msg |-> m]
               ELSE IF ~ok THEN Terminated
               ELSE IF ~table[m.id].present THEN Idle
               ELSE IF IsFreeUser(table[m.id].user_role)
                    THEN [pc |-> "sleep", msg |-> m, item |-> table[m.id]]
                    ELSE [pc |-> "deleteMessage", msg |-> m, item |-> table[m.id]]
    /\ UNCHANGED <<stores, now, profile, queues, ann, rest, thaw, annFirst, arch2,
            page>>

\* continue: the loop goes on to the next message; the skipped one stays.
ArchSkip ==
    /\ arch.pc = "skip"
    /\ arch' = Idle
    /\ UNCHANGED faults
    /\ UNCHANGED <<stores, now, profile, queues, ann, rest, thaw, annFirst, arch2,
            page>>

\* The sleep before archive_file is called.
ArchSleep ==
    /\ arch.pc = "sleep"
    /\ now + SleepSeconds <= MaxTime
    /\ now' = now + SleepSeconds
    /\ arch' = [arch EXCEPT !.pc = "download"]
    /\ UNCHANGED faults
    /\ UNCHANGED <<stores, profile, queues, ann, rest, thaw, annFirst, arch2, page>>

\* A poll_sqs that catches the exception of archive_file and goes on to
\* sqs.delete_message.
RaisedCaught(w) == [pc |-> "deleteMessage", msg |-> w.msg, item |-> w.item]

\* archive_file: raise e; nothing in poll_sqs catches it.
Raised(w) == Terminated

\* archive_file: s3.download_file; a ClientError (the object is gone, or the
\* call failed) is raised again and nothing in poll_sqs catches it.
ArchDownload(ok) ==
    /\ arch.pc = "download"
    /\ Outcome(ok)
    /\ arch' = IF ok /\ s3results[arch.msg.id] # NoObject
               THEN [pc |-> "upload", msg |-> arch.msg, item |-> arch.item,
                     file |-> s3results[arch.msg.id]]
               ELSE Raised(arch)
    /\ UNCHANGED <<stores, now, profile, queues, ann, rest, thaw, annFirst, arch2,
            page>>

\* The archive id glacier.upload_archive returns: one never handed out.
FreshArchive == CHOOSE a \in ArchiveIds :
                  /\ vault[a].state = "unused"
                  /\ \A b \in ArchiveIds : vault[b].state = "unused" => a <= b

ArchUpload(ok) ==
    /\ arch.pc = "upload"
    /\ Outcome(ok)
    /\ IF ok
       THEN /\ \E a \in ArchiveIds : vault[a].state = "unused"
            /\ vault' = [vault EXCEPT ![FreshArchive] =
                            [state |-> "stored", content |-> arch.file]]
            /\ arch' = [pc |-> "update", msg |-> arch.msg, item |-> arch.item,
                        archive_id |-> FreshArchive]
       ELSE /\ arch' = Raised(arch)
            /\ UNCHANGED vault
    /\ UNCHANGED <<table, s3results, gjobs, now, profile, queues, ann, rest,
                   thaw, annFirst, arch2, page>>

\* An archive_file that goes on to delete_object without update_item.
ArchUpdateSkipped(ok) ==
    /\ arch.pc = "update"
    /\ Outcome(ok)
    /\ arch' = IF ok THEN [arch EXCEPT !.pc = "deleteObject"] ELSE Terminated
    /\ UNCHANGED <<stores, now, profile, queues, ann, rest, thaw, annFirst,
                   arch2, page>>

\* table.update_item: SET results_file_archive_id = :archive_id
ArchUpdate(ok) ==
    /\ arch.pc = "update"
    /\ Outcome(ok)
    /\ IF ok
       THEN /\ table' = SetAttr(table, arch.msg.id, "results_file_archive_id",
                                arch.archive_id)
            /\ arch' = [arch EXCEPT !.pc = "deleteObject"]
       ELSE /\ arch' = Terminated
            /\ UNCHANGED table
    /\ UNCHANGED <<s3results, vault, gjobs, now, profile, queues, ann, rest,
                   thaw, annFirst, arch2, page>>

\* A delete that leaves the object where it is.
DeleteObjectKept(s, j) == s

\* s3.delete_object(Bucket, Key): the object of the key is gone.
DeleteObject(s, j) == [s EXCEPT ![j] = NoObject]

ArchDeleteObject(ok) ==
    /\ arch.pc = "deleteObject"
    /\ Outcome(ok)
    /\ IF ok
       THEN /\ s3results' = DeleteObject(s3results, arch.msg.id)
            /\ arch' = [arch EXCEPT !.pc = "deleteMessage"]
       ELSE /\ arch' = Terminated
            /\ UNCHANGED s3results
    /\ UNCHANGED <<table, vault, gjobs, now, profile, queues, ann, rest, thaw,
                   annFirst, arch2, page>>

\* sqs.delete_message, after archive_file returned or for a premium user.
ArchDeleteMessage(ok) ==
    /\ arch.pc = "deleteMessage"
    /\ Outcome(ok)
    /\ IF ok
       THEN /\ resultsQ' = resultsQ \ {arch.msg}
            /\ arch' = Idle
       ELSE /\ arch' = Terminated
            /\ UNCHANGED resultsQ
    /\ UNCHANGED <<stores, now, profile, requestQ, restoreQ, thawQ, ann, rest,
                   thaw, annFirst, arch2, page>>

ArchCrash ==
    /\ arch.pc \notin {"idle", "terminated"}
    /\ arch' = Idle
    /\ Outcome(FALSE)
    /\ UNCHANGED <<stores, now, profile, queues, ann, rest, thaw, annFirst, arch2,
            page>>

Archiver ==
    \/ \E m \in resultsQ, ok \in BOOLEAN : ArchReceive(m, ok)
    \/ ArchSleep
    \/ \E ok \in BOOLEAN : ArchDownload(ok)
    \/ \E ok \in BOOLEAN : ArchUpload(ok)
    \/ \E ok \in BOOLEAN : ArchUpdate(ok)
    \/ \E ok \in BOOLEAN : ArchDeleteObject(ok)
    \/ \E ok \in BOOLEAN : ArchDeleteMessage(ok)
    \/ ArchCrash

\* -------------------------------------------------------------- restore.py
\* What table.scan returns for an item: the attributes the loop reads.
ScanItem(t, j) ==
    [job_id |-> j, results_file_archive_id |-> t[j].results_file_archive_id,
     glacier_restore_job_id |-> t[j].glacier_restore_job_id]

\* restore_user_data: 'results_file_archive_id' in item
ToRestore(item) == item.results_file_archive_id # NoRef

\* A scan without the filter on user_id.
ScanToRestoreAnyUser(t, u) ==
    {ScanItem(t, j) : j \in {k \in Jobs : /\ t[k].present
                                          /\ ToRestore(ScanItem(t, k))}}

\* The items of the scan for which initiate_glacier_retrieval is called.
ScanToRestore(t, u) ==
    {ScanItem(t, j) : j \in {k \in Jobs : /\ t[k].present
                                          /\ t[k].user_id = u
                                          /\ ToRestore(ScanItem(t, k))}}

\* print(f"Error ...: {e}"): an entry of the log of the pass.
Printed(tag, id) == [tag |-> tag, id |-> id]

\* poll_sqs: an envelope without 'Message' or a payload without user_id is
\* skipped with continue; restore_user_data scans the table (a ClientError,
\* or no item to restore: it returns and the message is deleted).
RestReceive(m, ok) ==
    /\ rest.pc = "idle"
    /\ m \in restoreQ
    /\ Outcome(ok)
    /\ ok \/ m.kind = "ok"
    /\ rest' = IF m.kind # "ok" THEN [pc |-> "skip", msg |-> m]
               ELSE IF ~ok \/ ScanToRestore(table, m.id) = {}
                    THEN [pc |-> "deleteMessage", msg |-> m, items |-> {},
                          log |-> IF ok THEN {} ELSE {Printed("scanError", m.id)}]
                    ELSE [pc |-> "expedited", msg |-> m,
                          items |-> ScanToRestore(table, m.id), log |-> {}]
    /\ UNCHANGED <<stores, now, profile, queues, ann, arch, thaw, annFirst, arch2,
            page>>

\* continue: the loop goes on to the next message; the skipped one stays.
RestSkip ==
    /\ rest.pc = "skip"
    /\ rest' = Idle
    /\ UNCHANGED faults
    /\ UNCHANGED <<stores, now, profile, queues, ann, arch, thaw, annFirst, arch2,
            page>>

\* The job id glacier_client.initiate_job returns: one never handed out.
FreshRetrieval == CHOOSE r \in RetrievalIds :
                    /\ gjobs[r].state = "unused"
                    /\ \A q \in RetrievalIds : gjobs[q].state = "unused" => r <= q

\* A pass that tries the item again after it was handled.
RestAfterRetry(item, printed) ==
    [pc |-> "expedited", msg |-> rest.msg, items |-> rest.items,
     log |-> rest.log \cup printed]

\* A pass that ends with the first item that printed an error.
RestAfterAbort(item, printed) ==
    [pc |-> IF rest.items \ {item} = {} \/ printed # {}
            THEN "deleteMessage" ELSE "expedited",
     msg |-> rest.msg,
     items |-> IF printed # {} THEN {} ELSE rest.items \ {item},
     log |-> rest.log \cup printed]

\* After an item: the next item of the scan, or the end of restore_user_data.
\* log: the errors the pass has printed so far, each with the job_id of the
\* item (the user_id for the scan) it is about:
\*   "scanError": the ClientError of table.scan;
\*   "expeditedError": the Expedited request of a stored archive failed with
\*       a ClientError other than InsufficientCapacityException;
\*   "notFound": a request named an archive that is not in the vault;
\*   "standardFailed": the Standard request of a stored archive failed;
\*   "updateError": the ClientError of table.update_item.
RestAfter(item, printed) ==
    [pc |-> IF rest.items \ {item} = {} THEN "deleteMessage" ELSE "expedited",
     msg |-> rest.msg, items |-> rest.items \ {item},
     log |-> rest.log \cup printed]

\* What a refused request of the archive prints.
Refused(item, tag) ==
    IF vault[item.results_file_archive_id].state = "stored"
    THEN {Printed(tag, item.job_id)}
    ELSE {Printed("notFound", item.job_id)}

\* glacier_client.initiate_job of one tier: Glacier starts the job when the
\* archive is in the vault (and fails with a ClientError when it is not).
\* The tier of the request stays with the worker; nothing reads it later.
RestInitiate(item, tier) ==
    /\ vault[item.results_file_archive_id].state = "stored"
    /\ \E r \in RetrievalIds : gjobs[r].state = "unused"
    /\ gjobs' = [gjobs EXCEPT ![FreshRetrieval] =
                    [state |-> "InProgress",
                     archive |-> item.results_file_archive_id,
                     fetched |-> FALSE]]
    /\ rest' = [pc |-> "update", msg |-> rest.msg, items |-> rest.items,
                log |-> rest.log, item |-> item,
                glacier_restore_job_id |-> FreshRetrieval, tier |-> tier]

\* e.response['Error']['Code'] of the ClientError of a refused request.
ErrorCode(outcome) ==
    IF outcome = "capacity" THEN "InsufficientCapacityException"
    ELSE "ServiceUnavailableException"

\* A test of the code that sends every refused request to the Standard tier.
FallsBackAlways(code) == TRUE

\* e.response['Error']['Code'] == 'InsufficientCapacityException'
FallsBack(code) == code = "InsufficientCapacityException"

\* initiate_glacier_retrieval(item): the Expedited request.  It succeeds, is
\* refused with InsufficientCapacityException (the Standard request follows)
\* or fails with another ClientError (printed).
RestExpedited(item, outcome) ==
    /\ rest.pc = "expedited"
    /\ item \in rest.items
    /\ CASE outcome = "ok" -> RestInitiate(item, "Expedited")
         [] outcome # "ok" /\ FallsBack(ErrorCode(outcome)) ->
              /\ rest' = [pc |-> "standard", msg |-> rest.msg,
                          items |-> rest.items, log |-> rest.log,
                          item |-> item, code |-> ErrorCode(outcome)]
              /\ UNCHANGED gjobs
         [] OTHER ->
              /\ rest' = RestAfter(item, Refused(item, "expeditedError"))
              /\ UNCHANGED gjobs
    /\ Outcome(\/ outcome \in {"ok", "capacity"}
               \/ vault[item.results_file_archive_id].state # "stored")
    /\ UNCHANGED <<table, s3results, vault, now, profile, queues, ann, arch,
                   thaw, annFirst, arch2, page>>

\* The Standard request after InsufficientCapacityException; its ClientError
\* is printed.
RestStandard(ok) ==
    /\ rest.pc = "standard"
    /\ Outcome(ok \/ vault[rest.item.results_file_archive_id].state # "stored")
    /\ IF ok
       THEN RestInitiate(rest.item, "Standard")
       ELSE /\ rest' = RestAfter(rest.item, Refused(rest.item, "standardFailed"))
            /\ UNCHANGED gjobs
    /\ UNCHANGED <<table, s3results, vault, now, profile, queues, ann, arch,
                   thaw, annFirst, arch2, page>>

\* table.update_item: SET glacier_restore_job_id = :glacier_restore_job_id
\* (a ClientError is caught and printed).
RestUpdate(ok) ==
    /\ rest.pc = "update"
    /\ Outcome(ok)
    /\ table' = IF ok
                THEN SetAttr(table, rest.item.job_id, "glacier_restore_job_id",
                             rest.glacier_restore_job_id)
                ELSE table
    /\ rest' = RestAfter(rest.item,
                         IF ok THEN {}
                         ELSE {Printed("updateError", rest.item.job_id)})
    /\ UNCHANGED <<s3results, vault, gjobs, now, profile, queues, ann, arch,
                   thaw, annFirst, arch2, page>>

\* poll_sqs: sqs.delete_message after restore_user_data, whatever it did.
RestDeleteMessage(ok) ==
    /\ rest.pc = "deleteMessage"
    /\ Outcome(ok)
    /\ restoreQ' = IF ok THEN restoreQ \ {rest.msg} ELSE restoreQ
    /\ rest' = Idle
    /\ UNCHANGED <<stores, now, profile, requestQ, resultsQ, thawQ, ann, arch,
                   thaw, annFirst, arch2, page>>

RestCrash ==
    /\ rest.pc \notin {"idle", "terminated"}
    /\ rest' = Idle
    /\ Outcome(FALSE)
    /\ UNCHANGED <<stores, now, profile, queues, ann, arch, thaw, annFirst, arch2,
            page>>

Restorer ==
    \/ \E m \in restoreQ, ok \in BOOLEAN : RestReceive(m, ok)
    \/ /\ rest.pc = "expedited"
       /\ \E item \in rest.items, outcome \in {"ok", "capacity", "error"} :
             RestExpedited(item, outcome)
    \/ \E ok \in BOOLEAN : RestStandard(ok)
    \/ \E ok \in BOOLEAN : RestUpdate(ok)
    \/ \E ok \in BOOLEAN : RestDeleteMessage(ok)
    \/ RestCrash

\* ------------------------------------------------------------------ Glacier
\* A retrieval job ends and Glacier publishes its completion (JobId,
\* ArchiveId) to the thaw topic.  The job of an archive that was deleted
\* while the job was in progress succeeds or fails.
GlacierComplete(r, succeeds) ==
    /\ gjobs[r].state = "InProgress"
    /\ succeeds \/ vault[gjobs[r].archive].state # "stored"
    /\ gjobs' = [gjobs EXCEPT ![r].state = IF succeeds THEN "Succeeded" ELSE "Failed"]
    /\ thawQ' = thawQ \cup {ThawMsg(r)}
    /\ UNCHANGED faults
    /\ UNCHANGED <<table, s3results, vault, now, profile, requestQ, resultsQ,
                   restoreQ, ann, arch, rest, thaw, annFirst, arch2, page>>

\* A restore request for a user who has submitted a job arrives in the
\* restore queue.
RestoreRequest(u) ==
    /\ UserMsg(u) \notin restoreQ
    /\ \E j \in Jobs : table[j].present /\ table[j].user_id = u
    /\ restoreQ' = restoreQ \cup {UserMsg(u)}
    /\ UNCHANGED faults
    /\ UNCHANGED <<stores, now, profile, requestQ, resultsQ, thawQ, ann, arch,
                   rest, thaw, annFirst, arch2, page>>

\* ----------------------------------------------------------------- thaw.py
\* A lookup that ignores the archive id and returns every item of the table.
ItemsOfAnyArchive(t, a) ==
    {j \in Jobs : t[j].present}

\* get_s3_key_result_file(archive_id): the first item of the query of
\* results_file_archive_id_index, or None.
ItemsOfArchive(t, a) ==
    {j \in Jobs : t[j].present /\ t[j].results_file_archive_id = a}

\* poll_sqs: sns_message['Message'] of an envelope without it is a KeyError,
\* which is not caught; glacier.get_job_output (ok: the call succeeds), whose
\* ClientError skips the message with continue.
ThawReceive(m, ok) ==
    /\ thaw.pc = "idle"
    /\ m \in thawQ
    /\ Outcome(ok)
    /\ ok \/ m.kind = "ok"
    /\ thaw' = IF m.kind # "ok" THEN Terminated
               ELSE IF ok /\ gjobs[m.id].state = "Succeeded"
                    THEN [pc |-> "query", msg |-> m,
                          archive_id |-> gjobs[m.id].archive,
                          body |-> vault[gjobs[m.id].archive].content]
                    ELSE Idle
    /\ gjobs' = IF thaw'.pc = "query"
                THEN [gjobs EXCEPT ![m.id].fetched = TRUE]
                ELSE gjobs
    /\ UNCHANGED <<table, s3results, vault, now, profile, queues, ann, arch,
                   rest, annFirst, arch2, page>>

\* item = get_s3_key_result_file(archive_id); None (no item, or the query's
\* ClientError): continue, which skips the message without deleting it.
ThawQuery(ok) ==
    /\ thaw.pc = "query"
    /\ Outcome(ok)
    /\ IF ok /\ ItemsOfArchive(table, thaw.archive_id) # {}
       THEN \E j \in ItemsOfArchive(table, thaw.archive_id) :
               thaw' = [pc |-> "upload", msg |-> thaw.msg,
                        archive_id |-> thaw.archive_id, body |-> thaw.body,
                        job_id |-> j]
       ELSE thaw' = Idle
    /\ UNCHANGED <<stores, now, profile, queues, ann, arch, rest, annFirst, arch2,
            page>>

\* An upload step that goes on to delete_archive without writing the object.
ThawUploadDropped(ok) ==
    /\ thaw.pc = "upload"
    /\ Outcome(ok)
    /\ thaw' = IF ok THEN [thaw EXCEPT !.pc = "deleteArchive"] ELSE Terminated
    /\ UNCHANGED <<stores, now, profile, queues, ann, arch, rest, annFirst, arch2,
            page>>

\* s3.upload_file to item['s3_key_result_file']; its S3UploadFailedError is
\* no ClientError and is not caught.
ThawUpload(ok) ==
    /\ thaw.pc = "upload"
    /\ Outcome(ok)
    /\ IF ok
       THEN /\ s3results' = [s3results EXCEPT ![thaw.job_id] = thaw.body]
            /\ thaw' = [thaw EXCEPT !.pc = "deleteArchive"]
       ELSE /\ thaw' = Terminated
            /\ UNCHANGED s3results
    /\ UNCHANGED <<table, vault, gjobs, now, profile, queues, ann, arch, rest,
                   annFirst, arch2, page>>

\* glacier.delete_archive; a ClientError skips the message with continue.
ThawDeleteArchive(ok) ==
    /\ thaw.pc = "deleteArchive"
    /\ Outcome(ok)
    /\ IF ok
       THEN /\ vault' = [vault EXCEPT ![thaw.archive_id].state = "deleted"]
            /\ thaw' = [thaw EXCEPT !.pc = "update"]
       ELSE /\ thaw' = Idle
            /\ UNCHANGED vault
    /\ UNCHANGED <<table, s3results, gjobs, now, profile, queues, ann, arch,
                   rest, annFirst, arch2, page>>

\* table.update_item(Key, 'REMOVE results_file_archive_id, glacier_restore_job_id')
RemoveRefs(t, j) ==
    [t EXCEPT ![j] = [@ EXCEPT !.present = TRUE,
                               !.results_file_archive_id = NoRef,
                               !.glacier_restore_job_id = NoRef]]

ThawUpdate(ok) ==
    /\ thaw.pc = "update"
    /\ Outcome(ok)
    /\ IF ok
       THEN /\ table' = RemoveRefs(table, thaw.job_id)
            /\ thaw' = [thaw EXCEPT !.pc = "deleteMessage"]
       ELSE /\ thaw' = Idle
            /\ UNCHANGED table
    /\ UNCHANGED <<s3results, vault, gjobs, now, profile, queues, ann, arch,
                   rest, annFirst, arch2, page>>

\* sqs.delete_message; a ClientError is caught like the others.
ThawDeleteMessage(ok) ==
    /\ thaw.pc = "deleteMessage"
    /\ Outcome(ok)
    /\ thawQ' = IF ok THEN thawQ \ {thaw.msg} ELSE thawQ
    /\ thaw' = Idle
    /\ UNCHANGED <<stores, now, profile, requestQ, resultsQ, restoreQ, ann,
                   arch, rest, annFirst, arch2, page>>

ThawCrash ==
    /\ thaw.pc \notin {"idle", "terminated"}
    /\ Outcome(FALSE)
    /\ thaw' = Idle
    /\ UNCHANGED <<stores, now, profile, queues, ann, arch, rest, annFirst, arch2,
            page>>

Thawer ==
    \/ \E m \in thawQ, ok \in BOOLEAN : ThawReceive(m, ok)
    \/ \E ok \in BOOLEAN : ThawQuery(ok)
    \/ \E ok \in BOOLEAN : ThawUpload(ok)
    \/ \E ok \in BOOLEAN : ThawDeleteArchive(ok)
    \/ \E ok \in BOOLEAN : ThawUpdate(ok)
    \/ \E ok \in BOOLEAN : ThawDeleteMessage(ok)
    \/ ThawCrash

Web == \E j \in Submitted, u \in Users : Submit(j, u)

Glacier == \E r \in RetrievalIds, succeeds \in BOOLEAN : GlacierComplete(r, succeeds)

Channel == \E u \in Users : RestoreRequest(u)

Next == Web \/ Annotator \/ Archiver \/ Restorer \/ Glacier \/ Channel \/ Thawer

Spec == Init /\ [][Next]_vars

\* ------------------------------------------------------------------ claims
ArchiveRef(j) == table[j].results_file_archive_id
RetrievalRef(j) == table[j].glacier_restore_job_id
IsPremium(j) == table[j].present /\ table[j].user_role = "premium_user"

\* A worker is between the receive of a message and the end of its handling.
Busy(w) == w.pc \notin {"idle", "terminated"}

\* C1: when process_annotation returns for a message of a job that an earlier
\* processing of the same message already brought to COMPLETED, the job_status
\* is the one the first processing left (processing twice = processing once).
C1_RedeliveryIdempotent ==
    \A j \in Jobs :
        (/\ ann.pc = "returned"
         /\ ann.msg.id = j
         /\ ann.ret \in {"ok", "failed"}
         /\ annFirst[j] # "none")
        => table[j].job_status = annFirst[j]

\* C2: every change of an item's job_status is PENDING->RUNNING,
\* RUNNING->COMPLETED or RUNNING->FAILED.
StatusSteps ==
    {<<"PENDING", "RUNNING">>, <<"RUNNING", "COMPLETED">>, <<"RUNNING", "FAILED">>}

C2_StatusMonotonic ==
    [][\A j \in Jobs :
          (table[j].present /\ table'[j].job_status # table[j].job_status)
          => <<table[j].job_status, table'[j].job_status>> \in StatusSteps]_vars

\* C3: a job of a premium user is never archived: its item has no archive id,
\* the vault holds no archive of its result, its result object is never
\* deleted from the results bucket, and archive.py goes from the receive of
\* its completion message straight to the delete of the message.
C3_State ==
    \A j \in Jobs : IsPremium(j) =>
        /\ ArchiveRef(j) = NoRef
        /\ \A a \in ArchiveIds : vault[a].content # j
        /\ (Busy(arch) /\ arch.msg.id = j) => arch.pc = "deleteMessage"

C3_Step ==
    \A j \in Jobs : IsPremium(j) =>
        /\ s3results[j] # NoObject => s3results'[j] # NoObject
        /\ (/\ arch.pc = "deleteMessage"
            /\ arch.msg.id = j
            /\ arch'.pc = "idle"
            /\ faults' = faults) => arch.msg \notin resultsQ'

C3_PremiumNeverArchived == []C3_State /\ [][C3_Step]_vars

\* C3 witness: the completion message of a premium user's completed job has
\* been handled and deleted by archive.py, and the result object is there.
C3_Witness ==
    \E j \in Jobs :
        /\ IsPremium(j)
        /\ table[j].job_status = "COMPLETED"
        /\ \A m \in resultsQ : m.id # j
        /\ s3results[j] # NoObject
        /\ arch.pc = "idle"

\* C4: no item carries an archive id while less than the grace period has
\* passed since the job's complete_time.
C4_ArchivedAfterGrace ==
    \A j \in Jobs :
        ArchiveRef(j) # NoRef => now - table[j].complete_time >= GracePeriod

\* C5: the archive sub-state of an item changes only NONE->ARCHIVED,
\* ARCHIVED->RETRIEVING (the same archive id) and RETRIEVING->NONE, and is
\* always one of the three.
SubState(item) ==
    IF item.results_file_archive_id = NoRef
    THEN IF item.glacier_restore_job_id = NoRef THEN "NONE" ELSE "INVALID"
    ELSE IF item.glacier_restore_job_id = NoRef THEN "ARCHIVED" ELSE "RETRIEVING"

Refs(item) == <<item.results_file_archive_id, item.glacier_restore_job_id>>

C5_SubStateSteps ==
    [][\A j \in Jobs :
          Refs(table'[j]) # Refs(table[j]) =>
             \/ SubState(table[j]) = "NONE" /\ SubState(table'[j]) = "ARCHIVED"
             \/ /\ SubState(table[j]) = "ARCHIVED"
                /\ SubState(table'[j]) = "RETRIEVING"
                /\ ArchiveRef(j)' = ArchiveRef(j)
             \/ SubState(table[j]) = "RETRIEVING" /\ SubState(table'[j]) = "NONE"]_vars

\* C6 as stated: an item never carries an archive id while the job's result
\* object is in the results bucket, the states between two store calls of
\* archive.py and of thaw.py included.
C6_ArchiveExcludesObject ==
    \A j \in Jobs : ~(ArchiveRef(j) # NoRef /\ s3results[j] # NoObject)

\* A notification about the job is still in a queue, not yet deleted: its job
\* request, a completion notification, or the completion of a retrieval of an
\* archive of its result.
Pending(j) ==
    \/ \E m \in requestQ : m.id = j
    \/ \E m \in resultsQ : m.id = j
    \/ \E m \in thawQ : vault[gjobs[m.id].archive].content = RunResult(j)

\* C6: an item carries an archive id while the job's result object is in the
\* results bucket only while a notification about the job is still pending;
\* once every notification about the job has been deleted from its queue,
\* the archive id and the result object exclude each other.
C6_ExclusiveWhenQuiescent ==
    \A j \in Jobs :
        (ArchiveRef(j) # NoRef /\ s3results[j] # NoObject) => Pending(j)

\* C6 witness: a job has been archived and its completion notification
\* deleted: the item carries the archive id, no notification about the job
\* is pending, and the result object is gone from the bucket.
C6_Witness ==
    \E j \in Jobs :
        /\ ArchiveRef(j) # NoRef
        /\ ~Pending(j)
        /\ s3results[j] = NoObject
        /\ arch.pc = "idle"

\* C7: an item that carries a retrieval job id carries an archive id.
C7_RetrievalImpliesArchive ==
    \A j \in Jobs : RetrievalRef(j) # NoRef => ArchiveRef(j) # NoRef

\* C8: archive.py never stores another archive for a job whose item, as read
\* when the completion message was received, already carried an archive id.
C8_NoSecondArchive ==
    arch.pc \in {"update", "deleteObject"}
        => arch.item.results_file_archive_id = NoRef

\* C9: restore.py never initiates a retrieval for an item that, in the scan,
\* already carried a retrieval job id.
C9_NoSecondRetrieval ==
    rest.pc = "update" => rest.item.glacier_restore_job_id = NoRef

\* C10: when thaw.py finds no item for the archive id of a completion message,
\* it changes no store and ends the handling with the message deleted.
C10_NoItemAcknowledged ==
    [][(/\ thaw.pc = "query"
        /\ ItemsOfArchive(table, thaw.archive_id) = {}
        /\ thaw' # thaw
        /\ faults' = faults)
       => (UNCHANGED stores /\ thaw.msg \notin thawQ')]_vars

\* C11: a thaw notification whose retrieval output thaw.py has fetched before
\* is delivered again when the item of the restored job carries no archive
\* id and no retrieval id: thaw.py does not call glacier.get_job_output again.
C11_NoSecondFetch ==
    [][\A r \in RetrievalIds, j \in Jobs :
          (/\ gjobs[r].fetched
           /\ vault[gjobs[r].archive].content = RunResult(j)
           /\ table[j].present
           /\ SubState(table[j]) = "NONE"
           /\ thaw.pc = "idle"
           /\ thaw' # thaw
           /\ thaw'.pc # "terminated"
           /\ ThawMsg(r) \in thawQ)
          => ~(thaw'.pc = "query" /\ thaw'.msg = ThawMsg(r))]_vars

\* C12: in every handling of a notification by thaw.py the archive is deleted
\* only by the delete_archive call, which is reached only from the upload
\* that wrote the retrieved bytes under the result key; every step of the
\* handling before it (a crash or an error among them) leaves the vault and
\* the items as they are, and the delete itself leaves the items as they are.
C12_Step ==
    /\ \A a \in ArchiveIds :
          (vault[a].state = "stored" /\ vault'[a].state = "deleted")
          => (thaw.pc = "deleteArchive" /\ thaw.archive_id = a)
    /\ (thaw'.pc = "deleteArchive" /\ thaw.pc # "deleteArchive")
          => /\ thaw.pc = "upload"
             /\ thaw'.archive_id = thaw.archive_id
             /\ s3results'[thaw.job_id] = thaw.body
             /\ thaw.body # NoObject
    /\ (thaw.pc \in {"idle", "query", "upload"} /\ thaw' # thaw)
          => (vault' = vault /\ table' = table)
    /\ (thaw.pc = "deleteArchive" /\ thaw' # thaw) => table' = table

C12_DeleteAfterWrite == [][C12_Step]_vars

\* C12 witness: thaw.py has written the bytes and deleted the archive.
C12_Witness ==
    /\ thaw.pc = "update"
    /\ vault[thaw.archive_id].state = "deleted"
    /\ s3results[thaw.job_id] = thaw.body

LogTags(r) == {e.tag : e \in r.log}

\* C13: the Standard request is made only after the Expedited request of the
\* same item was refused with InsufficientCapacityException, once, and no
\* further request for the item follows in the pass; an Expedited request
\* that started a job, or failed otherwise, is followed by no Standard one.
InPass(r) == r.pc \in {"expedited", "standard", "update", "deleteMessage"}

NewJobs == {r \in RetrievalIds : gjobs[r].state = "unused" /\ gjobs'[r].state # "unused"}

C13_State ==
    rest.pc = "standard" => rest.code = "InsufficientCapacityException"

C13_Step ==
    /\ (rest'.pc = "standard" /\ rest' # rest)
          => (rest.pc = "expedited" /\ rest'.item \in rest.items /\ NewJobs = {})
    /\ (rest.pc = "standard" /\ rest' # rest /\ InPass(rest'))
          => \/ rest'.pc = "update" /\ rest'.item = rest.item /\ rest'.tier = "Standard"
             \/ rest'.pc \in {"expedited", "deleteMessage"} /\ rest'.items = rest.items \ {rest.item}
    /\ (rest.pc = "update" /\ rest' # rest /\ InPass(rest'))
          => (rest'.pc \in {"expedited", "deleteMessage"} /\ rest'.items = rest.items \ {rest.item})
    /\ (rest.pc = "expedited" /\ rest' # rest /\ InPass(rest') /\ rest'.pc # "standard")
          => \/ rest'.pc = "update" /\ rest'.tier = "Expedited" /\ rest'.item \in rest.items
             \/ /\ rest'.pc \in {"expedited", "deleteMessage"}
                /\ \E item \in rest.items : rest'.items = rest.items \ {item}
    /\ NewJobs # {}
          => /\ Cardinality(NewJobs) = 1
             /\ rest.pc \in {"expedited", "standard"}
             /\ rest'.pc = "update"
             /\ rest'.tier = IF rest.pc = "standard" THEN "Standard" ELSE "Expedited"

C13_TierFallback == []C13_State /\ [][C13_Step]_vars

\* C13 witness: the Standard request after the refused Expedited one started
\* a job.
C13_Witness == rest.pc = "update" /\ rest.tier = "Standard"

\* C14: when the Standard request fails after the refused Expedited one, the
\* step changes no item and the pass goes on without the item.
C14_Step ==
    (rest.pc = "standard" /\ rest' # rest /\ InPass(rest') /\ NewJobs = {})
    => /\ table' = table
       /\ rest'.pc \in {"expedited", "deleteMessage"}
       /\ rest'.items = rest.items \ {rest.item}

C14_BothRefused == [][C14_Step]_vars

\* C14 witness: both requests of an item were refused; the item carries its
\* archive id and no retrieval id.
C14_Witness ==
    /\ rest.pc = "deleteMessage"
    /\ "standardFailed" \in LogTags(rest)
    /\ \E j \in Jobs : /\ table[j].user_id = rest.msg.id
                       /\ ArchiveRef(j) # NoRef
                       /\ RetrievalRef(j) = NoRef

\* C19: when table.scan failed, or an Expedited request failed with another
\* error than InsufficientCapacityException, restore.py ends the handling of
\* the restore request with the message still in the queue.
C19_FailureKeepsMessage ==
    [][(/\ rest.pc = "deleteMessage"
        /\ LogTags(rest) \cap {"scanError", "expeditedError"} # {}
        /\ rest' # rest)
       => rest.msg \in restoreQ']_vars

\* ------------------------------------------------- restore pass, two items
\* Both jobs of user u1 have completed and have been archived, and u1 has
\* become a premium user; restore requests for u1 arrive and restore.py
\* handles them.
InitR ==
    /\ table = [j \in Jobs |->
                  [present |-> TRUE, user_id |-> "u1", user_role |-> "free_user",
                   job_status |-> "COMPLETED", s3_key_result_file |-> TRUE,
                   complete_time |-> 0,
                   results_file_archive_id |-> IF j = "j1" THEN 1 ELSE 2,
                   glacier_restore_job_id |-> NoRef]]
    /\ s3results = [j \in Jobs |-> NoObject]
    /\ vault = [a \in ArchiveIds |->
                  IF a = 1 THEN [state |-> "stored", content |-> RunResult("j1")]
                  ELSE IF a = 2 THEN [state |-> "stored", content |-> RunResult("j2")]
                  ELSE NoArchive]
    /\ gjobs = [r \in RetrievalIds |-> NoGJob]
    /\ now = MaxTime
    /\ profile = [u \in Users |-> "premium_user"]
    /\ requestQ = {}
    /\ resultsQ = {}
    /\ restoreQ = {}
    /\ thawQ = {}
    /\ ann = Idle
    /\ arch = Idle
    /\ arch2 = Idle
    /\ page = NoPage
    /\ rest = Idle
    /\ thaw = Idle
    /\ annFirst = [j \in Jobs |-> "COMPLETED"]
    /\ faults = 0

NextR == Channel \/ Restorer

SpecR == InitR /\ [][NextR]_vars

\* C15: when a pass of restore.py over the items of a user ends without a
\* failed scan, every archived item of the user about which the pass printed
\* no error carries the retrieval job id of a job started for its archive;
\* the pass ends only when no item of the scan is left, and every item
\* handled, with or without an error, leaves the others in the pass.
C15_State ==
    (rest.pc = "deleteMessage" /\ "scanError" \notin LogTags(rest))
    => /\ rest.items = {}
       /\ \A j \in Jobs :
             (/\ table[j].present
              /\ table[j].user_id = rest.msg.id
              /\ ArchiveRef(j) # NoRef
              /\ \A e \in rest.log : e.id # j)
             => /\ RetrievalRef(j) # NoRef
                /\ gjobs[RetrievalRef(j)].archive = ArchiveRef(j)

C15_Step ==
    (rest.pc \in {"expedited", "standard", "update"} /\ rest' # rest /\ InPass(rest'))
    => /\ rest'.items \subseteq rest.items
       /\ Cardinality(rest.items \ rest'.items) <= 1
       /\ rest'.pc = "deleteMessage" <=> rest'.items = {}

C15_OthersRestored == []C15_State /\ [][C15_Step]_vars

\* C15 witness: the pass printed an error about one item after it had started
\* that item's job, then started the job of another item of the user and
\* wrote its retrieval job id.
C15_Witness ==
    /\ rest.pc = "deleteMessage"
    /\ \E j \in Jobs, k \in Jobs :
          /\ j # k
          /\ table[j].user_id = table[k].user_id
          /\ \E e \in rest.log : e.id = j
          /\ RetrievalRef(j) = NoRef
          /\ RetrievalRef(k) # NoRef
          /\ \E r \in RetrievalIds : /\ gjobs[r].archive = ArchiveRef(j)
                                     /\ r < RetrievalRef(k)

\* ------------------------------------------------------ malformed messages
\* The malformed messages that can be in the queues together.
MaxMalformed == 1

QueueNames == {"request", "results", "restore", "thaw"}

BadMsg(kind) == [kind |-> kind, id |-> "none", n |-> 0]

BadIn(q) == {m \in q : m.kind # "ok"}

\* A message that is no well-formed notification arrives in a queue: an
\* envelope without 'Message', or a payload without the field the worker reads.
Malformed(name, kind) ==
    /\ Cardinality(BadIn(requestQ) \cup BadIn(resultsQ) \cup BadIn(restoreQ)
                   \cup BadIn(thawQ)) < MaxMalformed
    /\ requestQ' = IF name = "request" THEN requestQ \cup {BadMsg(kind)} ELSE requestQ
    /\ resultsQ' = IF name = "results" THEN resultsQ \cup {BadMsg(kind)} ELSE resultsQ
    /\ restoreQ' = IF name = "restore" THEN restoreQ \cup {BadMsg(kind)} ELSE restoreQ
    /\ thawQ' = IF name = "thaw" THEN thawQ \cup {BadMsg(kind)} ELSE thawQ
    /\ UNCHANGED faults
    /\ UNCHANGED <<stores, now, profile, ann, arch, rest, thaw, annFirst, arch2,
            page>>

\* The behaviours in which no call fails and no process is killed.
InitM == Start /\ faults = MaxFaults

\* The steps of the workers other than the end of a process.
Handling ==
    \/ \E m \in requestQ, ok \in BOOLEAN : AnnReceive(m, ok)
    \/ \E ok \in BOOLEAN : AnnSetRunning(ok)
    \/ \E rc0 \in BOOLEAN : AnnCompute(rc0)
    \/ \E ok \in BOOLEAN : AnnSetCompleted(ok)
    \/ \E ok \in BOOLEAN : AnnReturn(ok)
    \/ \E m \in resultsQ, ok \in BOOLEAN : ArchReceive(m, ok)
    \/ ArchSkip
    \/ ArchSleep
    \/ \E ok \in BOOLEAN : ArchDownload(ok)
    \/ \E ok \in BOOLEAN : ArchUpload(ok)
    \/ \E ok \in BOOLEAN : ArchUpdate(ok)
    \/ \E ok \in BOOLEAN : ArchDeleteObject(ok)
    \/ \E ok \in BOOLEAN : ArchDeleteMessage(ok)
    \/ \E m \in restoreQ, ok \in BOOLEAN : RestReceive(m, ok)
    \/ RestSkip
    \/ /\ rest.pc = "expedited"
       /\ \E item \in rest.items, outcome \in {"ok", "capacity", "error"} :
             RestExpedited(item, outcome)
    \/ \E ok \in BOOLEAN : RestStandard(ok)
    \/ \E ok \in BOOLEAN : RestUpdate(ok)
    \/ \E ok \in BOOLEAN : RestDeleteMessage(ok)
    \/ \E m \in thawQ, ok \in BOOLEAN : ThawReceive(m, ok)
    \/ \E ok \in BOOLEAN : ThawQuery(ok)
    \/ \E ok \in BOOLEAN : ThawUpload(ok)
    \/ \E ok \in BOOLEAN : ThawDeleteArchive(ok)
    \/ \E ok \in BOOLEAN : ThawUpdate(ok)
    \/ \E ok \in BOOLEAN : ThawDeleteMessage(ok)

Arrival ==
    \E name \in QueueNames, kind \in {"noMessage", "noField"} :
        Malformed(name, kind)

NextM == Web \/ Channel \/ Glacier \/ Arrival \/ Handling

SpecM == InitM /\ [][NextM]_vars

\* A worker ends the handling of a malformed message of the kind.
EndsBad(w, kind) ==
    /\ w.pc \in {"skip", "returned"}
    /\ w.msg.kind = kind

\* C16: a worker that received an envelope without 'Message' changes no
\* store and ends the handling with the message deleted from its queue (and
\* its process does not end with the message still queued).
C16_Step ==
    /\ (EndsBad(ann, "noMessage") /\ ann' # ann)
          => (ann.msg \notin requestQ' /\ UNCHANGED stores)
    /\ (EndsBad(arch, "noMessage") /\ arch' # arch)
          => (arch.msg \notin resultsQ' /\ UNCHANGED stores)
    /\ (EndsBad(rest, "noMessage") /\ rest' # rest)
          => (rest.msg \notin restoreQ' /\ UNCHANGED stores)
    /\ (thaw.pc = "idle" /\ thaw'.pc = "terminated")
          => BadMsg("noMessage") \notin thawQ'

C16_NoPayloadAcknowledged == [][C16_Step]_vars

\* C17: a worker that received a payload without the field it reads changes
\* no store and ends the handling with the message deleted from its queue.
C17_Step ==
    /\ (EndsBad(ann, "noField") /\ ann' # ann)
          => (ann.msg \notin requestQ' /\ UNCHANGED stores)
    /\ (EndsBad(arch, "noField") /\ arch' # arch)
          => (arch.msg \notin resultsQ' /\ UNCHANGED stores)
    /\ (EndsBad(rest, "noField") /\ rest' # rest)
          => (rest.msg \notin restoreQ' /\ UNCHANGED stores)

C17_MissingFieldAcknowledged == [][C17_Step]_vars

\* C18: when a call of process_annotation to S3 or DynamoDB fails (the input
\* download, the write of RUNNING or of COMPLETED), the handling changes no
\* store and ends with the request still in the queue.
C18_Step ==
    /\ (ann' # ann /\ faults' # faults /\ ann'.pc \notin {"idle", "terminated"})
          => /\ ann'.pc = "returned"
             /\ ann'.ret = "error"
             /\ UNCHANGED <<stores, queues>>
    /\ (ann.pc = "returned" /\ ann.ret = "error" /\ ann' # ann)
          => ann.msg \in requestQ'

C18_State == (ann.pc = "returned" /\ ann.ret = "error") => ann.msg \in requestQ

C18_StoreErrorKeepsMessage == []C18_State /\ [][C18_Step]_vars

\* C18 witness: the write of COMPLETED failed after the compute step; the
\* handling is about to end and the request is in the queue.
C18_Witness ==
    /\ ann.pc = "returned"
    /\ ann.ret = "error"
    /\ faults > 0
    /\ table[ann.msg.id].job_status = "RUNNING"
    /\ s3results[ann.msg.id] # NoObject
    /\ ann.msg \in requestQ

\* C20: when s3.download_file or glacier.upload_archive fails, archive.py
\* does nothing more: the completion notification stays in the queue, no item
\* changes and no object is deleted.
C20_Step ==
    /\ (/\ arch.pc \in {"download", "upload"}
        /\ arch' # arch
        /\ arch'.pc \notin {"upload", "update"})
          => /\ arch'.pc \in {"terminated", "idle"}
             /\ arch.msg \in resultsQ'
             /\ table' = table
             /\ s3results' = s3results
    /\ arch.pc = "terminated" => arch' = arch

C20_ArchiveFailureKeepsAll == [][C20_Step]_vars

\* C20 witness: archive.py has ended on the failed download or upload, after
\* the sleep: no archive is stored, the item carries no archive id, the
\* object and the notification are where they were.
C20_Witness ==
    /\ arch.pc = "terminated"
    /\ faults > 0
    /\ now >= SleepSeconds
    /\ \A a \in ArchiveIds : vault[a].state = "unused"
    /\ \E j \in Jobs : /\ \E m \in resultsQ : m.id = j
                       /\ s3results[j] # NoObject
                       /\ table[j].present
                       /\ ArchiveRef(j) = NoRef

\* --------------------------------------------------- claims on the outcome
\* C21: when the compute step ended with a return code other than 0, the
\* handling of the request ends with the item's job_status FAILED.
C21_FailedOnNonZero ==
    (ann.pc = "returned" /\ ann.ret = "failed")
    => table[ann.msg.id].job_status = "FAILED"

\* C22: when the compute step succeeded and COMPLETED was written, the item
\* has job_status COMPLETED, the result key and complete_time; and no item
\* ever has job_status COMPLETED without the result key and complete_time.
C22_State ==
    \A j \in Jobs :
        (table[j].present /\ table[j].job_status = "COMPLETED")
        => (table[j].s3_key_result_file /\ table[j].complete_time # NoTime)

C22_Step ==
    (ann.pc = "setCompleted" /\ ann'.pc = "returned" /\ ann'.ret = "ok")
    => /\ table'[ann.msg.id].job_status = "COMPLETED"
       /\ table'[ann.msg.id].s3_key_result_file
       /\ table'[ann.msg.id].complete_time # NoTime

C22_CompletedHasResult == []C22_State /\ [][C22_Step]_vars

\* C22 witness: process_annotation returned True for a job whose item is
\* COMPLETED with the result key and complete_time.
C22_Witness ==
    /\ ann.pc = "returned"
    /\ ann.ret = "ok"
    /\ table[ann.msg.id].job_status = "COMPLETED"
    /\ table[ann.msg.id].s3_key_result_file
    /\ table[ann.msg.id].complete_time # NoTime

\* C23: when the request of a job whose job_status is already RUNNING,
\* COMPLETED or FAILED has been received, process_annotation does not go on
\* to the compute step and leaves the table as it is.
C23_NoSecondCompute ==
    [][(/\ ann.pc = "setRunning"
        /\ table[ann.msg.id].job_status \in {"RUNNING", "COMPLETED", "FAILED"}
        /\ ann' # ann
        /\ faults' = faults)
       => (ann'.pc # "compute" /\ table' = table)]_vars

\* C24: a job request leaves the queue only by the delete_message that
\* follows a process_annotation that returned True, with the item COMPLETED;
\* while the request is being handled it is in the queue, and every step
\* taken after the receive and before the return (a kill between the compute
\* step and the write of COMPLETED among them) leaves it there.
C24_State == Busy(ann) => ann.msg \in requestQ

C24_Step ==
    /\ \A m \in requestQ :
          m \notin requestQ'
          => /\ ann.pc = "returned"
             /\ ann.msg = m
             /\ ann.ret = "ok"
             /\ table[m.id].job_status = "COMPLETED"
             /\ table'[m.id].job_status = "COMPLETED"
    /\ (ann.pc \in {"setRunning", "compute", "setCompleted"} /\ ann' # ann)
          => ann.msg \in requestQ'

C24_DeleteAfterCompleted == []C24_State /\ [][C24_Step]_vars

\* C24 witness: the worker was killed after a compute step, the request was
\* delivered again and the compute step ran once more; COMPLETED was written
\* and only then was the request deleted.
C24_Witness ==
    \E j \in Jobs :
        /\ faults > 0
        /\ \E m \in resultsQ : m.id = j /\ m.n = 2
        /\ table[j].job_status = "COMPLETED"
        /\ JobMsg(j) \notin requestQ
        /\ ann.pc = "idle"

\* ------------------------------------------- scenario A: submit to archive
\* The behaviours in which both jobs can be submitted, no call fails, the
\* compute step returns 0 and no process is killed; the annotator and
\* archive.py are loops that go on polling, so each of them takes a step it
\* can take.
AnnotatorA ==
    \/ \E m \in requestQ : AnnReceive(m, TRUE)
    \/ AnnSetRunning(TRUE)
    \/ AnnCompute(TRUE)
    \/ AnnSetCompleted(TRUE)
    \/ AnnReturn(TRUE)

ArchiverA ==
    \/ \E m \in resultsQ : ArchReceive(m, TRUE)
    \/ ArchSleep
    \/ ArchDownload(TRUE)
    \/ ArchUpload(TRUE)
    \/ ArchUpdate(TRUE)
    \/ ArchDeleteObject(TRUE)
    \/ ArchDeleteMessage(TRUE)

WebA == \E j \in Jobs, u \in Users : Submit(j, u)

NextA == WebA \/ AnnotatorA \/ ArchiverA

SpecA == InitM /\ [][NextA]_vars /\ WF_vars(AnnotatorA) /\ WF_vars(ArchiverA)

\* C25: a job submitted by a free user is eventually COMPLETED, and is
\* eventually archived: its item carries an archive id and its result object
\* is gone from the results bucket.
Archived(j) == ArchiveRef(j) # NoRef /\ s3results[j] = NoObject

C25_ScenarioA ==
    \A j \in Jobs :
        /\ (table[j].present /\ IsFreeUser(table[j].user_role))
              ~> (table[j].job_status = "COMPLETED")
        /\ (table[j].present /\ IsFreeUser(table[j].user_role))
              ~> Archived(j)

\* C25 witness: the job of a free user is COMPLETED and archived, and its
\* completion notification has been deleted.
C25_Witness ==
    \E j \in Jobs :
        /\ table[j].present
        /\ IsFreeUser(table[j].user_role)
        /\ table[j].job_status = "COMPLETED"
        /\ Archived(j)
        /\ \A m \in resultsQ : m.id # j
        /\ arch.pc = "idle"

\* ------------------------------------------ scenario B: upgrade to restore
\* views.py subscribe: notification_content = {'user_id': user_id}, and the
\* Message that is published is json.dumps({'default': json.dumps(content)}).
\* A payload is the dictionary that json.loads gives the receiver.
NotificationContent(u) == [user_id |-> u]
SubscribePayload(u) == [default |-> NotificationContent(u)]

\* restore.py poll_sqs: user_id = actual_message.get('user_id'); a payload
\* without the key is skipped as lacking user_id.
PayloadKind(payload) ==
    IF "user_id" \in DOMAIN payload THEN "ok"
    ELSE IF "default" \in DOMAIN payload THEN "default"
    ELSE "noField"

\* The message of the restore queue that the publish of subscribe becomes.
SubscribeMsg(u) == [kind |-> PayloadKind(SubscribePayload(u)), id |-> u]

\* subscribe (POST): update_profile(role="premium_user"), then sns.publish.
Subscribe(u) ==
    /\ SubscribeMsg(u) \notin restoreQ
    /\ profile' = [profile EXCEPT ![u] = "premium_user"]
    /\ restoreQ' = restoreQ \cup {SubscribeMsg(u)}
    /\ UNCHANGED faults
    /\ UNCHANGED <<stores, now, requestQ, resultsQ, thawQ, ann, arch, arch2,
                   rest, thaw, annFirst, page>>

\* Both jobs of the free user u1 have completed and have been archived.
InitB ==
    /\ table = [j \in Jobs |->
                  [present |-> TRUE, user_id |-> "u1", user_role |-> "free_user",
                   job_status |-> "COMPLETED", s3_key_result_file |-> TRUE,
                   complete_time |-> 0,
                   results_file_archive_id |-> IF j = "j1" THEN 1 ELSE 2,
                   glacier_restore_job_id |-> NoRef]]
    /\ s3results = [j \in Jobs |-> NoObject]
    /\ vault = [a \in ArchiveIds |->
                  IF a = 1 THEN [state |-> "stored", content |-> RunResult("j1")]
                  ELSE IF a = 2 THEN [state |-> "stored", content |-> RunResult("j2")]
                  ELSE NoArchive]
    /\ gjobs = [r \in RetrievalIds |-> NoGJob]
    /\ now = MaxTime
    /\ profile = [u \in Users |-> IF u = "u1" THEN "free_user" ELSE "premium_user"]
    /\ requestQ = {}
    /\ resultsQ = {}
    /\ restoreQ = {}
    /\ thawQ = {}
    /\ ann = Idle
    /\ arch = Idle
    /\ arch2 = Idle
    /\ page = NoPage
    /\ rest = Idle
    /\ thaw = Idle
    /\ annFirst = [j \in Jobs |-> "COMPLETED"]
    /\ faults = MaxFaults

RestorerB ==
    \/ \E m \in restoreQ : RestReceive(m, TRUE)
    \/ RestSkip
    \/ /\ rest.pc = "expedited"
       /\ \E item \in rest.items, outcome \in {"ok", "capacity", "error"} :
             RestExpedited(item, outcome)
    \/ \E ok \in BOOLEAN : RestStandard(ok)
    \/ RestUpdate(TRUE)
    \/ RestDeleteMessage(TRUE)

ThawerB ==
    \/ \E m \in thawQ : ThawReceive(m, TRUE)
    \/ ThawQuery(TRUE)
    \/ ThawUpload(TRUE)
    \/ ThawDeleteArchive(TRUE)
    \/ ThawUpdate(TRUE)
    \/ ThawDeleteMessage(TRUE)

Upgrade == \E u \in Users : Subscribe(u)

\* The upgrade of a user, restore requests that name user_id, and the loops
\* of restore.py and thaw.py, which go on polling; Glacier ends every job,
\* and a queue delivers every message that stays in it to the loop that
\* polls it.
NextB == Upgrade \/ Channel \/ RestorerB \/ Glacier \/ ThawerB

SpecB ==
    /\ InitB
    /\ [][NextB]_vars
    /\ WF_vars(RestorerB)
    /\ WF_vars(Glacier)
    /\ WF_vars(ThawerB)
    /\ \A u \in Users : /\ SF_vars(RestReceive(UserMsg(u), TRUE))
                        /\ SF_vars(RestReceive(SubscribeMsg(u), TRUE))
    /\ \A r \in RetrievalIds : SF_vars(ThawReceive(ThawMsg(r), TRUE))

\* C26: once a user with an archived job has upgraded and the restore request
\* of the upgrade is in the queue, restore.py eventually writes a retrieval
\* job id to the job's item, and thaw.py eventually puts the result object
\* back in the bucket and removes both ids from the item.
C26_ScenarioB ==
    \A u \in Users, j \in Jobs :
        /\ (/\ SubscribeMsg(u) \in restoreQ
            /\ table[j].user_id = u
            /\ SubState(table[j]) = "ARCHIVED")
              ~> (RetrievalRef(j) # NoRef)
        /\ (/\ SubscribeMsg(u) \in restoreQ
            /\ table[j].user_id = u
            /\ SubState(table[j]) = "ARCHIVED")
              ~> (SubState(table[j]) = "NONE" /\ s3results[j] # NoObject)

\* C30: for every user, when restore.py receives the message that subscribe
\* published for the user, the payload decodes to the user's user_id and the
\* restore pass is run for the user (the message is not skipped as lacking
\* user_id).
C30_UpgradeDecodes ==
    [][\A u \in Users :
          (rest.pc = "idle" /\ rest' # rest /\ rest'.msg = SubscribeMsg(u))
          => /\ PayloadKind(SubscribePayload(u)) = "ok"
             /\ rest'.pc \in {"expedited", "deleteMessage"}
             /\ rest'.msg.id = u]_vars

\* ------------------------------------------- restore pass without failures
\* Each job belongs to one of the users and is archived or not; restore
\* requests arrive and restore.py handles them; no request is refused and no
\* call fails.
ItemE(j, u, archived) ==
    [present |-> TRUE, user_id |-> u, user_role |-> "free_user",
     job_status |-> "COMPLETED", s3_key_result_file |-> TRUE,
     complete_time |-> 0,
     results_file_archive_id |->
         IF archived THEN (IF j = "j1" THEN 1 ELSE 2) ELSE NoRef,
     glacier_restore_job_id |-> NoRef]

InitE ==
    /\ \E owner \in [Jobs -> Users], archived \in [Jobs -> BOOLEAN] :
          /\ table = [j \in Jobs |-> ItemE(j, owner[j], archived[j])]
          /\ s3results = [j \in Jobs |->
                            IF archived[j] THEN NoObject ELSE RunResult(j)]
          /\ vault = [a \in ArchiveIds |->
                        IF a = 1 /\ archived["j1"]
                        THEN [state |-> "stored", content |-> RunResult("j1")]
                        ELSE IF a = 2 /\ archived["j2"]
                        THEN [state |-> "stored", content |-> RunResult("j2")]
                        ELSE NoArchive]
    /\ gjobs = [r \in RetrievalIds |-> NoGJob]
    /\ now = MaxTime
    /\ profile = [u \in Users |-> "premium_user"]
    /\ requestQ = {}
    /\ resultsQ = {}
    /\ restoreQ = {}
    /\ thawQ = {}
    /\ ann = Idle
    /\ arch = Idle
    /\ arch2 = Idle
    /\ page = NoPage
    /\ rest = Idle
    /\ thaw = Idle
    /\ annFirst = [j \in Jobs |-> "COMPLETED"]
    /\ faults = MaxFaults

RestorerE ==
    \/ \E m \in restoreQ : RestReceive(m, TRUE)
    \/ /\ rest.pc = "expedited"
       /\ \E item \in rest.items : RestExpedited(item, "ok")
    \/ RestUpdate(TRUE)
    \/ RestDeleteMessage(TRUE)

NextE == Channel \/ RestorerE

SpecE == InitE /\ [][NextE]_vars

\* C27: in a pass of restore.py for a user in which no request is refused and
\* no call fails, every job started is started by an Expedited request for
\* the archive of an item of the scan; the only item a step changes is the
\* one of that request, which belongs to the user and carries an archive id,
\* and it gets the id of the job started for its archive; and when the pass
\* ends every item of the user with an archive id carries such a job id.
C27_State ==
    /\ rest.pc # "standard"
    /\ rest.pc = "deleteMessage"
          => \A j \in Jobs :
                (table[j].user_id = rest.msg.id /\ ArchiveRef(j) # NoRef)
                => /\ RetrievalRef(j) # NoRef
                   /\ gjobs[RetrievalRef(j)].archive = ArchiveRef(j)

C27_Step ==
    /\ NewJobs # {}
          => /\ rest.pc = "expedited"
             /\ rest'.pc = "update"
             /\ rest'.tier = "Expedited"
             /\ rest'.item \in rest.items
             /\ NewJobs = {rest'.glacier_restore_job_id}
             /\ gjobs'[rest'.glacier_restore_job_id].archive =
                   rest'.item.results_file_archive_id
    /\ table' # table
          => /\ rest.pc = "update"
             /\ table[rest.item.job_id].user_id = rest.msg.id
             /\ ArchiveRef(rest.item.job_id) # NoRef
             /\ table' = [table EXCEPT ![rest.item.job_id].glacier_restore_job_id =
                              rest.glacier_restore_job_id]

C27_OnlyUsersArchived == []C27_State /\ [][C27_Step]_vars

\* C27 witness: a pass for a user has ended; a job of the user that was
\* archived carries a retrieval job id, and the other job, which belongs to
\* another user and is archived too, carries none.
C27_Witness ==
    /\ rest.pc = "deleteMessage"
    /\ \E j \in Jobs, k \in Jobs :
          /\ table[j].user_id = rest.msg.id
          /\ RetrievalRef(j) # NoRef
          /\ table[k].user_id # rest.msg.id
          /\ ArchiveRef(k) # NoRef
          /\ RetrievalRef(k) = NoRef

\* C28: an item that carries an archive id has job_status COMPLETED, in every
\* state, the states after the job request was delivered again included
\* (stated for the jobs for which process_annotation has once returned True,
\* so that the item was COMPLETED before).
C28_ArchivedIsCompleted ==
    \A j \in Jobs :
        (ArchiveRef(j) # NoRef /\ annFirst[j] = "COMPLETED")
        => table[j].job_status = "COMPLETED"

\* ------------------------------------------ two instances of archive.py
\* The steps of the second instance of archive.py: the same code, with its
\* own position and locals (arch2).  A message that one instance has received
\* and is handling is not delivered to the other.
Arch2Receive(m) ==
    /\ arch2.pc = "idle"
    /\ m \in resultsQ
    /\ ~(Busy(arch) /\ arch.msg = m)
    /\ m.kind = "ok"
    /\ arch2' = IF ~table[m.id].present THEN Idle
                ELSE IF IsFreeUser(table[m.id].user_role)
                     THEN [pc |-> "sleep", msg |-> m, item |-> table[m.id]]
                     ELSE [pc |-> "deleteMessage", msg |-> m, item |-> table[m.id]]
    /\ UNCHANGED faults
    /\ UNCHANGED <<stores, now, profile, queues, ann, arch, rest, thaw, annFirst,
            page>>

Arch2Sleep ==
    /\ arch2.pc = "sleep"
    /\ now + SleepSeconds <= MaxTime
    /\ now' = now + SleepSeconds
    /\ arch2' = [arch2 EXCEPT !.pc = "download"]
    /\ UNCHANGED faults
    /\ UNCHANGED <<stores, profile, queues, ann, arch, rest, thaw, annFirst, page>>

Arch2Download ==
    /\ arch2.pc = "download"
    /\ arch2' = IF s3results[arch2.msg.id] # NoObject
                THEN [pc |-> "upload", msg |-> arch2.msg, item |-> arch2.item,
                      file |-> s3results[arch2.msg.id]]
                ELSE Raised(arch2)
    /\ UNCHANGED faults
    /\ UNCHANGED <<stores, now, profile, queues, ann, arch, rest, thaw, annFirst,
            page>>

Arch2Upload ==
    /\ arch2.pc = "upload"
    /\ \E a \in ArchiveIds : vault[a].state = "unused"
    /\ vault' = [vault EXCEPT ![FreshArchive] =
                    [state |-> "stored", content |-> arch2.file]]
    /\ arch2' = [pc |-> "update", msg |-> arch2.msg, item |-> arch2.item,
                 archive_id |-> FreshArchive]
    /\ UNCHANGED faults
    /\ UNCHANGED <<table, s3results, gjobs, now, profile, queues, ann, arch,
                   rest, thaw, annFirst, page>>

Arch2Update ==
    /\ arch2.pc = "update"
    /\ table' = SetAttr(table, arch2.msg.id, "results_file_archive_id",
                        arch2.archive_id)
    /\ arch2' = [arch2 EXCEPT !.pc = "deleteObject"]
    /\ UNCHANGED faults
    /\ UNCHANGED <<s3results, vault, gjobs, now, profile, queues, ann, arch,
                   rest, thaw, annFirst, page>>

Arch2DeleteObject ==
    /\ arch2.pc = "deleteObject"
    /\ s3results' = DeleteObject(s3results, arch2.msg.id)
    /\ arch2' = [arch2 EXCEPT !.pc = "deleteMessage"]
    /\ UNCHANGED faults
    /\ UNCHANGED <<table, vault, gjobs, now, profile, queues, ann, arch, rest,
                   thaw, annFirst, page>>

Arch2DeleteMessage ==
    /\ arch2.pc = "deleteMessage"
    /\ resultsQ' = resultsQ \ {arch2.msg}
    /\ arch2' = Idle
    /\ UNCHANGED faults
    /\ UNCHANGED <<stores, now, profile, requestQ, restoreQ, thawQ, ann, arch,
                   rest, thaw, annFirst, page>>

Archiver2 ==
    \/ \E m \in resultsQ : Arch2Receive(m)
    \/ Arch2Sleep
    \/ Arch2Download
    \/ Arch2Upload
    \/ Arch2Update
    \/ Arch2DeleteObject
    \/ Arch2DeleteMessage

\* Two completion notifications of the free user's job j1 are in the results
\* queue, its result object is in the bucket, and both instances of
\* archive.py poll the queue; no call fails.
InitC ==
    /\ table = [j \in Jobs |->
                  IF j = "j1"
                  THEN [present |-> TRUE, user_id |-> "u1",
                        user_role |-> "free_user", job_status |-> "COMPLETED",
                        s3_key_result_file |-> TRUE, complete_time |-> 0,
                        results_file_archive_id |-> NoRef,
                        glacier_restore_job_id |-> NoRef]
                  ELSE NoItem]
    /\ s3results = [j \in Jobs |-> IF j = "j1" THEN RunResult(j) ELSE NoObject]
    /\ vault = [a \in ArchiveIds |-> NoArchive]
    /\ gjobs = [r \in RetrievalIds |-> NoGJob]
    /\ now = 0
    /\ profile = [u \in Users |-> IF u = "u1" THEN "free_user" ELSE "premium_user"]
    /\ requestQ = {}
    /\ resultsQ = {ResultMsg("j1", n) : n \in 1..2}
    /\ restoreQ = {}
    /\ thawQ = {}
    /\ ann = Idle
    /\ arch = Idle
    /\ arch2 = Idle
    /\ page = NoPage
    /\ rest = Idle
    /\ thaw = Idle
    /\ annFirst = [j \in Jobs |-> IF j = "j1" THEN "COMPLETED" ELSE "none"]
    /\ faults = MaxFaults

ArchiverC ==
    \/ \E m \in resultsQ : ~(Busy(arch2) /\ arch2.msg = m) /\ ArchReceive(m, TRUE)
    \/ ArchSleep
    \/ ArchDownload(TRUE)
    \/ ArchUpload(TRUE)
    \/ ArchUpdate(TRUE)
    \/ ArchDeleteObject(TRUE)
    \/ ArchDeleteMessage(TRUE)

NextC == ArchiverC \/ Archiver2

SpecC == InitC /\ [][NextC]_vars

\* The archives in the vault that hold the result of the job.
CopiesOf(j) ==
    {a \in ArchiveIds : vault[a].state = "stored" /\ vault[a].content = RunResult(j)}

\* C29: while two instances of archive.py handle two completion notifications
\* of the same free user's job, the vault never holds more than one archive
\* of the job's result, an archive id the item carries names the stored
\* archive, and no instance ends on the download of the deleted object.
C29_OneArchiveCopy ==
    \A j \in Jobs :
        /\ Cardinality(CopiesOf(j)) <= 1
        /\ (ArchiveRef(j) # NoRef /\ CopiesOf(j) # {}) => ArchiveRef(j) \in CopiesOf(j)
        /\ arch.pc # "terminated"
        /\ arch2.pc # "terminated"

\* ------------------------------------------------- views.py: job details
\* The times at which the details of a job are viewed: around the 300
\* seconds after complete_time 0.
ViewTimes == {0, GracePeriod - 1, GracePeriod, GracePeriod + 1}

\* annotation_details: free_access_expired is set, and the first
\* result_file_url left out, when the item has complete_time, the session's
\* role is free_user and more than 300 seconds have passed; after that the
\* result_file_url is generated whenever job_status is COMPLETED.
FreeAccessExpired(item, role, time) ==
    /\ item.complete_time # NoTime
    /\ role = "free_user"
    /\ time - item.complete_time > GracePeriod

annotation_details(j, item, role, time) ==
    [job |-> j,
     result_file_url |->
        \/ item.complete_time # NoTime /\ ~FreeAccessExpired(item, role, time)
        \/ item.job_status = "COMPLETED",
     free_access_expired |-> FreeAccessExpired(item, role, time)]

\* The owner of a job opens /annotations/<id>.
View(u, j) ==
    /\ table[j].present
    /\ table[j].user_id = u
    /\ page' = annotation_details(j, table[j], profile[u], now)
    /\ UNCHANGED faults
    /\ UNCHANGED <<stores, now, profile, queues, ann, arch, arch2, rest, thaw,
                   annFirst>>

\* Time passes.
Tick(t) ==
    /\ t > now
    /\ now' = t
    /\ UNCHANGED faults
    /\ UNCHANGED <<stores, profile, queues, ann, arch, arch2, rest, thaw, page,
                   annFirst>>

\* The items a viewer can find: submitted (PENDING), computed with the
\* write of COMPLETED still to come (RUNNING with complete_time), COMPLETED.
ItemV(u, role, status) ==
    [present |-> TRUE, user_id |-> u, user_role |-> role,
     job_status |-> status, s3_key_result_file |-> status # "PENDING",
     complete_time |-> IF status = "PENDING" THEN NoTime ELSE 0,
     results_file_archive_id |-> NoRef, glacier_restore_job_id |-> NoRef]

InitV ==
    /\ \E owner \in [Jobs -> Users],
          status \in [Jobs -> {"PENDING", "RUNNING", "COMPLETED"}],
          role \in [Users -> {"free_user", "premium_user"}] :
          /\ table = [j \in Jobs |-> ItemV(owner[j], "free_user", status[j])]
          /\ s3results = [j \in Jobs |->
                            IF status[j] = "PENDING" THEN NoObject ELSE RunResult(j)]
          /\ profile = role
    /\ vault = [a \in ArchiveIds |-> NoArchive]
    /\ gjobs = [r \in RetrievalIds |-> NoGJob]
    /\ now = 0
    /\ requestQ = {}
    /\ resultsQ = {}
    /\ restoreQ = {}
    /\ thawQ = {}
    /\ ann = Idle
    /\ arch = Idle
    /\ arch2 = Idle
    /\ page = NoPage
    /\ rest = Idle
    /\ thaw = Idle
    /\ annFirst = [j \in Jobs |-> "none"]
    /\ faults = MaxFaults

Viewer == \E u \in Users, j \in Jobs : View(u, j)

Clock == \E t \in ViewTimes : Tick(t)

NextV == Viewer \/ Clock

SpecV == InitV /\ [][NextV]_vars

\* C31: the page of a COMPLETED job that a free user opens more than 300
\* seconds after complete_time has no result_file_url, and the page of a
\* COMPLETED job that a premium user opens has it, whatever the time.
C31_TimeBoundedAccess ==
    [][\A u \in Users, j \in Jobs :
          (/\ page' # page
           /\ page'.job = j
           /\ table[j].user_id = u
           /\ table[j].job_status = "COMPLETED")
          => /\ (profile[u] = "free_user"
                 /\ now - table[j].complete_time > GracePeriod)
                    => ~page'.result_file_url
             /\ profile[u] = "premium_user" => page'.result_file_url]_vars

\* ------------------------------------------------ archive.py on its own
\* Jobs are submitted, computed and archived; calls fail and processes are
\* killed; no restore request is made.
NextO == Web \/ Annotator \/ Archiver

SpecO == Init /\ [][NextO]_vars

\* C32: archive.py deletes the result object only in the delete_object step,
\* which it reaches only from the update_item that wrote the archive id,
\* which it reaches only from the upload_archive that stored the archive; the
\* notification of a free user's job is deleted only after delete_object;
\* and whenever a result object is gone, a kill or a failed call at any
\* point included, the item carries an archive id.
C32_State ==
    \A j \in Jobs :
        (table[j].s3_key_result_file /\ s3results[j] = NoObject)
        => ArchiveRef(j) # NoRef

C32_Step ==
    /\ \A j \in Jobs :
          (s3results[j] # NoObject /\ s3results'[j] = NoObject)
          => /\ arch.pc = "deleteObject"
             /\ arch.msg.id = j
             /\ ArchiveRef(j) = arch.archive_id
             /\ vault[arch.archive_id].state = "stored"
             /\ vault[arch.archive_id].content = s3results[j]
    /\ (arch'.pc = "deleteObject" /\ arch.pc # "deleteObject")
          => /\ arch.pc = "update"
             /\ table'[arch.msg.id].results_file_archive_id = arch.archive_id
    /\ (arch'.pc = "update" /\ arch.pc # "update")
          => /\ arch.pc = "upload"
             /\ vault[arch'.archive_id].state = "unused"
             /\ vault'[arch'.archive_id] = [state |-> "stored", content |-> arch.file]
    /\ \A m \in resultsQ :
          m \notin resultsQ'
          => /\ arch.pc = "deleteMessage"
             /\ arch.msg = m
             /\ IsFreeUser(arch.item.user_role) => ArchiveRef(m.id) # NoRef
    /\ (arch'.pc = "deleteMessage" /\ arch.pc # "deleteMessage")
          => \/ arch.pc = "deleteObject"
             \/ arch.pc = "idle" /\ ~IsFreeUser(arch'.item.user_role)

C32_ArchivalOrder == []C32_State /\ [][C32_Step]_vars

\* C32 witness: archive.py was killed after delete_object and before
\* delete_message: the object is gone, the item carries the id of the stored
\* archive, and the notification is still queued.
C32_Witness ==
    \E j \in Jobs :
        /\ faults > 0
        /\ arch.pc = "idle"
        /\ s3results[j] = NoObject
        /\ ArchiveRef(j) # NoRef
        /\ vault[ArchiveRef(j)].state = "stored"
        /\ \E m \in resultsQ : m.id = j
        /\ table[j].job_status = "COMPLETED"

\* ------------------------------------------------- claims on the result
\* The result bytes of the job are in the results bucket under its key.
InBucket(j) == s3results[j] = RunResult(j)

\* The result bytes of the job are in the vault under the item's archive id.
InVault(j) ==
    /\ ArchiveRef(j) # NoRef
    /\ vault[ArchiveRef(j)].state = "stored"
    /\ vault[ArchiveRef(j)].content = RunResult(j)

\* C33: once a job is COMPLETED its result bytes are in the results bucket
\* under the item's result key or in the vault under the item's archive id,
\* in every state of every interleaving of the workers.
C33_NoDataLoss ==
    \A j \in Jobs :
        (table[j].present /\ table[j].job_status = "COMPLETED")
        => (InBucket(j) \/ InVault(j))

\* C34: whenever thaw.py is not in the middle of a handling (it waits for a
\* message, after a kill between two of its steps included), the archive id
\* an item carries names an archive that is stored in the vault.
C34_NoDanglingArchive ==
    thaw.pc = "idle"
    => \A j \in Jobs :
          ArchiveRef(j) # NoRef => vault[ArchiveRef(j)].state = "stored"

\* ------------------------------------------- upgrade during the sleep
\* Both jobs of u1 were submitted while u1 was a free user and are COMPLETED;
\* archive.py has received the notification of j1 and is in its sleep, the
\* notification of j2 is queued; u1 has now become a premium user and a
\* restore request that names u1 is in the restore queue.  No call fails.
ItemU(u) ==
    [present |-> TRUE, user_id |-> u, user_role |-> "free_user",
     job_status |-> "COMPLETED", s3_key_result_file |-> TRUE,
     complete_time |-> 0, results_file_archive_id |-> NoRef,
     glacier_restore_job_id |-> NoRef]

InitU ==
    /\ table = [j \in Jobs |-> ItemU("u1")]
    /\ s3results = [j \in Jobs |-> RunResult(j)]
    /\ vault = [a \in ArchiveIds |-> NoArchive]
    /\ gjobs = [r \in RetrievalIds |-> NoGJob]
    /\ now = 0
    /\ profile = [u \in Users |-> "premium_user"]
    /\ requestQ = {}
    /\ resultsQ = {ResultMsg(j, 1) : j \in Jobs}
    /\ restoreQ = {UserMsg("u1")}
    /\ thawQ = {}
    /\ ann = Idle
    /\ arch = [pc |-> "sleep", msg |-> ResultMsg("j1", 1), item |-> ItemU("u1")]
    /\ arch2 = Idle
    /\ page = NoPage
    /\ rest = Idle
    /\ thaw = Idle
    /\ annFirst = [j \in Jobs |-> "COMPLETED"]
    /\ faults = MaxFaults

NextU == ArchiverA \/ RestorerE \/ Glacier \/ ThawerB

SpecU == InitU /\ [][NextU]_vars

\* Every queued message has been handled and deleted, and no worker is in
\* the middle of a handling.
AllProcessed ==
    /\ requestQ = {}
    /\ resultsQ = {}
    /\ restoreQ = {}
    /\ thawQ = {}
    /\ ~Busy(ann)
    /\ ~Busy(arch)
    /\ ~Busy(rest)
    /\ ~Busy(thaw)

\* C35: when the user was upgraded and the restore request handled while
\* archive.py was in its sleep for a job of the user, then once every queued
\* message has been handled no job of the now premium user is left with an
\* archive id and no retrieval job id.
C35_UpgradeRace ==
    AllProcessed
    => \A j \in Jobs :
          (table[j].present /\ profile[table[j].user_id] = "premium_user")
          => ~(ArchiveRef(j) # NoRef /\ RetrievalRef(j) = NoRef)

\* C36: no failed call, missing item or malformed message ends the loop of a
\* worker: the annotator, archive.py, restore.py and thaw.py are never
\* terminated.
C36_LoopsSurvive ==
    /\ ann.pc # "terminated"
    /\ arch.pc # "terminated"
    /\ rest.pc # "terminated"
    /\ thaw.pc # "terminated"

\* C37: the round trip of a result file through archive.py, Glacier and
\* thaw.py.  An archive a record points to holds the bytes of that job's
\* result file; archive.py uploads what it downloaded from the job's key; and
\* thaw.py writes the bytes of the archive under the key of the job it
\* found by the archive id, where they equal that job's result file, leaving
\* every other key alone.  No step changes the s3_key_result_file of a
\* COMPLETED record.
C37_State ==
    \A j \in Jobs :
        /\ s3results[j] \in {NoObject, RunResult(j)}
        /\ (table[j].present /\ ArchiveRef(j) # NoRef
              /\ vault[ArchiveRef(j)].state = "stored")
           => vault[ArchiveRef(j)].content = RunResult(j)

C37_Step ==
    /\ \A j \in Jobs :
          (table[j].job_status = "COMPLETED" /\ table'[j].present)
          => table'[j].s3_key_result_file = table[j].s3_key_result_file
    /\ (arch.pc = "download" /\ arch'.pc = "upload")
       => (arch'.file = s3results[arch.msg.id] /\ arch'.file # NoObject)
    /\ (arch.pc = "upload" /\ arch'.pc = "update")
       => vault'[arch'.archive_id] =
             [state |-> "stored", content |-> arch.file]
    /\ (thaw.pc = "idle" /\ thaw'.pc = "query")
       => thaw'.body = vault[thaw'.archive_id].content
    /\ (thaw.pc = "upload" /\ thaw'.pc = "deleteArchive")
       => /\ thaw.body = vault[thaw.archive_id].content
          /\ s3results' = [s3results EXCEPT
                              ![thaw.job_id] = RunResult(thaw.job_id)]

C37_RoundTrip == []C37_State /\ [][C37_Step]_vars

\* thaw.py has put back the result file of an archived job, deleted the
\* archive and cleared the record's archive id.
C37_Witness ==
    /\ thaw.pc = "deleteMessage"
    /\ table[thaw.job_id].job_status = "COMPLETED"
    /\ table[thaw.job_id].s3_key_result_file
    /\ ArchiveRef(thaw.job_id) = NoRef
    /\ vault[thaw.archive_id] =
          [state |-> "deleted", content |-> RunResult(thaw.job_id)]
    /\ s3results[thaw.job_id] = RunResult(thaw.job_id)
====
